---- MODULE Spec2Model ----
(***************************************************************************)
(* The post routes of SocialUwU (src/unnamed/part_000) over a document     *)
(* store, and the create-post dialog of the client                         *)
(* (src/client/src/components/MiddleStuffDark/MiddleStuffDark.tsx).        *)
(*                                                                         *)
(* The store is the Post collection.  Every route handler is an async      *)
(* function; the handlers that read a post and then write it (like,        *)
(* delete, update, comment) are two steps, one up to the first write (the  *)
(* findById and the synchronous branch that follows it) and one for the    *)
(* write, the final find and the response, so that other requests can run  *)
(* between the two.  Handlers with one store call are one step.  Callers    *)
(* of the routes behind isAuthenticated are authenticated users.           *)
(***************************************************************************)
EXTENDS Integers, Sequences, FiniteSets, TLC

\* ------------------------------------------------------------------ bounds
NumUsers == 2
MaxPosts == 2
MaxInFlight == 2
MaxComments == 1
ConcPosts == 1

\* ------------------------------------------------------- program constants
MinCaption == 5
MaxCaption == 100
TrendingLimit == 5

Users == 1..NumUsers
PostIds == 1..MaxPosts
Slots == 1..MaxInFlight

VARIABLES
  posts,       \* the Post collection: post id -> document, or NULL
  nextId,      \* the next _id the store hands out
  now,         \* the clock createdAt is stamped from; it advances between posts
  reqs,        \* per connection: the request in flight, or its response
  storedKind,  \* runtime type of Post.userId as read back from the store
  callerKind,  \* runtime type of res.locals.user._id
  postData,    \* the dialog's postData state {caption, image}
  open         \* the dialog's open state

vars == <<posts, nextId, now, reqs, storedKind, callerKind, postData, open>>
storeVars == <<posts, nextId, now>>
dialogVars == <<postData, open>>
kindVars == <<storedKind, callerKind>>

NULL == [null |-> TRUE]
Idle == [kind |-> "idle"]

\* ----------------------------------------------------------------- strings
\* A string is a sequence of characters; "x" is any non-blank character.
Blanks(n) == [i \in 1..n |-> " "]
Xs(n) == [i \in 1..n |-> "x"]
Str(lead, n, trail) == Blanks(lead) \o Xs(n) \o Blanks(trail)

RECURSIVE TrimStart(_)
TrimStart(s) == IF s # <<>> /\ Head(s) = " " THEN TrimStart(Tail(s)) ELSE s

RECURSIVE TrimEnd(_)
TrimEnd(s) ==
  IF s # <<>> /\ s[Len(s)] = " " THEN TrimEnd(SubSeq(s, 1, Len(s) - 1)) ELSE s

\* String.prototype.trim
Trim(s) == TrimEnd(TrimStart(s))

\* -------------------------------------------------------------- identifiers
\* An identifier value at run time: a string, or an object wrapping it.
Id(kind, u) == [kind |-> kind, val |-> u]
IdKinds == {"string", "object"}

\* JavaScript ===: strings compare by value, objects by reference, and two
\* identifiers obtained from two different lookups are never one object.
StrictEq(a, b) == a.kind = "string" /\ b.kind = "string" /\ a.val = b.val

\* res.locals.user._id of the authenticated caller u
LocalsUserId(u) == Id(callerKind, u)

\* The User document of u as User.findById returns it
UserDoc(u) == [_id |-> u, username |-> u, password |-> "hash"]

\* lodash omit(object, key)
Omit(obj, key) == [f \in DOMAIN obj \ {key} |-> obj[f]]

\* ------------------------------------------------------------------- store
Exists(p) == p \in PostIds /\ posts[p] # NULL

\* Post.findById
FindById(p) == IF Exists(p) THEN posts[p] ELSE NULL

RECURSIVE Natural(_)
\* The documents of the collection in natural (insertion) order, from id n down
Natural(n) ==
  IF n = 0 THEN <<>>
  ELSE Natural(n - 1) \o (IF Exists(n) THEN <<n>> ELSE <<>>)

\* Post.find()
FindAll == Natural(MaxPosts)

RECURSIVE Filter(_, _)
Filter(seq, keep) ==
  IF seq = <<>> THEN <<>>
  ELSE (IF keep[Head(seq)] THEN <<Head(seq)>> ELSE <<>>) \o Filter(Tail(seq), keep)

\* Post.find({ userId: u }): no sort, natural order
FindByUser(u) ==
  Filter(FindAll, [p \in PostIds |-> Exists(p) /\ posts[p].userId.val = u])

RECURSIVE InsertDesc(_, _, _)
\* x put into the descending sequence s, after the elements that tie with it
InsertDesc(x, s, key) ==
  IF s = <<>> THEN <<x>>
  ELSE IF key[Head(s)] >= key[x] THEN <<Head(s)>> \o InsertDesc(x, Tail(s), key)
  ELSE <<x>> \o s

RECURSIVE SortDesc(_, _)
\* .sort({ field: -1 }) of a sequence of ids by key
SortDesc(seq, key) ==
  IF seq = <<>> THEN <<>>
  ELSE InsertDesc(seq[Len(seq)], SortDesc(SubSeq(seq, 1, Len(seq) - 1), key), key)

CreatedAtKey == [p \in PostIds |-> IF Exists(p) THEN posts[p].createdAt ELSE 0]

\* Post.find().sort({ createdAt: -1 })
FindSortedByCreatedAt == SortDesc(FindAll, CreatedAtKey)

Range(s) == {s[i] : i \in DOMAIN s}
MaxOf(S) == CHOOSE m \in S : \A x \in S : x <= m

\* The key of an array field in a descending sort is its greatest element;
\* an empty array sorts below every value.
ArrayDescKey(a) == IF a = <<>> THEN 0 ELSE MaxOf(Range(a))

LikesKey == [p \in PostIds |-> IF Exists(p) THEN ArrayDescKey(posts[p].likes) ELSE 0]

Take(s, n) == SubSeq(s, 1, IF Len(s) < n THEN Len(s) ELSE n)

\* Post.find().sort({ likes: -1 }).limit(5)
Trending == Take(SortDesc(FindAll, LikesKey), TrendingLimit)

\* ------------------------------------------------------------- validation
\* body("caption").exists().isLength({min: 5, max: 100}), body("image").exists():
\* the messages of the rules the body violates, in the order of the chains
ValidatePost(body) ==
  (IF "caption" \in DOMAIN body THEN <<>> ELSE <<"Caption in required">>)
  \o (IF "caption" \in DOMAIN body
         /\ Len(body.caption) >= MinCaption /\ Len(body.caption) <= MaxCaption
      THEN <<>> ELSE <<"Caption must be between 5 and 100 characters">>)
  \o (IF "image" \in DOMAIN body THEN <<>> ELSE <<"Image is required">>)

\* body("comment").exists()
ValidateComment(body) ==
  IF "comment" \in DOMAIN body THEN <<>> ELSE <<"Comment is required">>

\* ---------------------------------------------------------------- requests
\* A connection is free when it holds no request or an answered one.
Free(s) == reqs[s].kind \in {"idle", "done"}

\* Requests are taken by the lowest free connection.
Accepts(s) == Free(s) /\ \A t \in Slots : t < s => ~Free(t)

\* The bodies of the responses.  An array of posts is named by the find that
\* produced it; its value is that find's operator (FindSortedByCreatedAt,
\* FindByUser, Trending) on the store at the response.  The others are one
\* document or null, an {error} object, and the upload's text.
PostsBody == [posts |-> "find().sort({createdAt: -1})"]
UserPostsBody(u) == [posts |-> "find({userId})", userId |-> u]
TrendingBody == [posts |-> "find().sort({likes: -1}).limit(5)"]
PostBody(doc) == IF doc = NULL THEN [null |-> TRUE] ELSE [post |-> doc._id]
ErrorBody(msg) == [error |-> msg]

\* A request answered with res.status(status).json(body)
Done(route, status, body) ==
  [kind |-> "done", route |-> route, status |-> status, body |-> body]

\* A request suspended at the await of its write
Await(route, u, p, arg) ==
  [kind |-> "await", route |-> route, user |-> u, postId |-> p, arg |-> arg]

Respond(s, r) == reqs' = [reqs EXCEPT ![s] = r]

\* A catch block that reports the failed lookup as not found
CaughtNotFound(route) == Done(route, 404, ErrorBody("TypeError"))

\* The catch block of a handler: status 500 with the error's message
Caught(route) == Done(route, 500, ErrorBody("TypeError"))

\* ---------------------------------------------------------- store updates
\* Array.prototype.includes on the likes array of a document
Includes(likes, u) == \E i \in DOMAIN likes : likes[i] = u

\* { $pull: { likes: u } } removes every occurrence
Pull(likes, u) == SelectSeq(likes, LAMBDA x : x # u)

\* { $push: { field: x } }
Push(arr, x) == Append(arr, x)

\* The document store after doc.updateOne / findByIdAndUpdate of post p: the
\* update applies to the stored document, and to nothing when it is gone.
UpdateOne(p, doc) == IF Exists(p) THEN [posts EXCEPT ![p] = doc] ELSE posts

\* ------------------------------------------------------------ read routes
\* router.get("/")
GetAll(s) ==
  /\ Free(s)
  /\ Respond(s, Done("GET /", 200, PostsBody))
  /\ UNCHANGED <<storeVars, kindVars, dialogVars>>

\* router.get("/userposts")
GetUserPosts(s, u) ==
  /\ Free(s)
  /\ Respond(s, Done("GET /userposts", 200, UserPostsBody(u)))
  /\ UNCHANGED <<storeVars, kindVars, dialogVars>>

\* router.get("/userposts/:userId")
GetUserPostsById(s, userId) ==
  /\ Free(s)
  /\ Respond(s, Done("GET /userposts/:userId", 200, UserPostsBody(userId)))
  /\ UNCHANGED <<storeVars, kindVars, dialogVars>>

\* router.get("/trending")
GetTrending(s) ==
  /\ Free(s)
  /\ Respond(s, Done("GET /trending", 200, TrendingBody))
  /\ UNCHANGED <<storeVars, kindVars, dialogVars>>

\* router.get("/:postId")
GetPost(s, p) ==
  /\ Free(s)
  /\ Respond(s, Done("GET /:postId", 200, PostBody(FindById(p))))
  /\ UNCHANGED <<storeVars, kindVars, dialogVars>>

\* router.post("/imageboi")
UploadImage(s) ==
  /\ Free(s)
  /\ Respond(s, Done("POST /imageboi", 200, [text |-> "Uploaded"]))
  /\ UNCHANGED <<storeVars, kindVars, dialogVars>>

\* ------------------------------------------------------------ create route
\* The document Post.create stores
NewPost(id, u, body, t) ==
  [_id |-> id, caption |-> body.caption, image |-> body.image,
   userId |-> Id(storedKind, u), likes |-> <<>>, comments |-> <<>>,
   createdAt |-> t]

\* The store part of router.post("/")
CreateStore(s, u, body) ==
  IF ValidatePost(body) # <<>>
  THEN /\ Respond(s, Done("POST /", 400, ErrorBody(ValidatePost(body)[1])))
       /\ UNCHANGED storeVars
  ELSE /\ nextId <= MaxPosts
       /\ posts' = [posts EXCEPT ![nextId] = NewPost(nextId, u, body, now)]
       /\ now' = now + 1
       /\ nextId' = nextId + 1
       /\ Respond(s, Done("POST /", 200, PostsBody))

\* router.post("/")
CreatePost(s, u, body) ==
  /\ Free(s)
  /\ CreateStore(s, u, body)
  /\ UNCHANGED <<kindVars, dialogVars>>

\* -------------------------------------------------------------- like route
\* The branch with its test inverted
LikeBranchInverted(likes, u) == IF Includes(likes, u) THEN "push" ELSE "pull"

\* The branch on post.likes.includes(userId): the update to issue
LikeBranch(likes, u) == IF Includes(likes, u) THEN "pull" ELSE "push"

\* router.put("/like/:postId") up to the await of its updateOne: findById, then
\* the branch; a null post throws
LikeRead(s, u, p) ==
  /\ Free(s)
  /\ IF FindById(p) = NULL
     THEN Respond(s, Caught("PUT /like/:postId"))
     ELSE Respond(s, Await("PUT /like/:postId", u, p,
                           LikeBranch(FindById(p).likes, u)))
  /\ UNCHANGED <<storeVars, kindVars, dialogVars>>

\* The update written as a $set of the array the request computed from a post
\* without likes, which overwrites what other requests pushed
LikeUpdateSet(r, likes) ==
  IF r.arg = "pull" THEN Pull(likes, r.user) ELSE <<r.user>>

\* The likes of post p after the update the like request r issues
LikeUpdate(r, likes) ==
  IF r.arg = "pull" THEN Pull(likes, r.user) ELSE Push(likes, r.user)

\* router.put("/like/:postId") from its updateOne on: the $pull or $push, the
\* find and the response
LikeWrite(s) ==
  /\ reqs[s].kind = "await" /\ reqs[s].route = "PUT /like/:postId"
  /\ LET r == reqs[s] IN
       /\ posts' = (IF Exists(r.postId)
                    THEN UpdateOne(r.postId,
                           [posts[r.postId] EXCEPT !.likes = LikeUpdate(r, @)])
                    ELSE posts)
       /\ Respond(s, Done(r.route, 200, PostsBody))
  /\ UNCHANGED <<nextId, now, kindVars, dialogVars>>

\* ------------------------------------------------------------ delete route
\* The ownership test left out
IsOwnerUnchecked(post, u) == TRUE

\* post.userId === res.locals.user._id
IsOwner(post, u) == StrictEq(post.userId, LocalsUserId(u))

\* router.delete("/:postId") up to the await of findByIdAndDelete
DeleteRead(s, u, p) ==
  /\ Free(s)
  /\ IF FindById(p) = NULL
     THEN Respond(s, Caught("DELETE /:postId"))
     ELSE IF IsOwner(FindById(p), u)
     THEN Respond(s, Await("DELETE /:postId", u, p, "delete"))
     ELSE Respond(s, Done("DELETE /:postId", 403,
                          ErrorBody("You can't delete other posts")))
  /\ UNCHANGED <<storeVars, kindVars, dialogVars>>

\* router.delete("/:postId") from findByIdAndDelete on
DeleteWrite(s) ==
  /\ reqs[s].kind = "await" /\ reqs[s].route = "DELETE /:postId"
  /\ LET r == reqs[s] IN
       /\ posts' = [posts EXCEPT ![r.postId] = NULL]
       /\ Respond(s, Done(r.route, 200, PostsBody))
  /\ UNCHANGED <<nextId, now, kindVars, dialogVars>>

\* ------------------------------------------------------------ update route
\* router.put("/:postId") up to the await of findByIdAndUpdate
UpdateRead(s, u, p, body) ==
  /\ Free(s)
  /\ IF ValidatePost(body) # <<>>
     THEN Respond(s, Done("PUT /:postId", 400,
                          ErrorBody(ValidatePost(body)[1])))
     ELSE IF FindById(p) = NULL
     THEN Respond(s, Caught("PUT /:postId"))
     ELSE IF IsOwner(FindById(p), u)
     THEN Respond(s, Await("PUT /:postId", u, p, body))
     ELSE Respond(s, Done("PUT /:postId", 403,
                          ErrorBody("You can't update other posts")))
  /\ UNCHANGED <<storeVars, kindVars, dialogVars>>

\* router.put("/:postId") from findByIdAndUpdate on
UpdateWrite(s) ==
  /\ reqs[s].kind = "await" /\ reqs[s].route = "PUT /:postId"
  /\ LET r == reqs[s] IN
       /\ posts' = (IF Exists(r.postId)
                    THEN UpdateOne(r.postId,
                           [posts[r.postId] EXCEPT !.caption = r.arg.caption,
                                                   !.image = r.arg.image])
                    ELSE posts)
       /\ Respond(s, Done(r.route, 200, PostsBody))
  /\ UNCHANGED <<nextId, now, kindVars, dialogVars>>

\* ----------------------------------------------------------- comment route
\* The entry with the user document as found, password included
CommentEntryWhole(u, comment) == [userboi |-> UserDoc(u), comment |-> comment]

\* The entry {userboi, comment} the comment request of u pushes
CommentEntry(u, comment) ==
  [userboi |-> Omit(UserDoc(u), "password"), comment |-> comment]

\* router.post("/:postId/comment") up to the await of its updateOne: the two
\* findById calls; post.updateOne on a null post throws
CommentRead(s, u, p, body) ==
  /\ Free(s)
  /\ IF ValidateComment(body) # <<>>
     THEN Respond(s, Done("POST /:postId/comment", 400,
                          ErrorBody(ValidateComment(body)[1])))
     ELSE IF FindById(p) = NULL
     THEN Respond(s, Caught("POST /:postId/comment"))
     ELSE /\ Len(posts[p].comments) < MaxComments
          /\ Respond(s, Await("POST /:postId/comment", u, p, body.comment))
  /\ UNCHANGED <<storeVars, kindVars, dialogVars>>

\* router.post("/:postId/comment") from its updateOne on
CommentWrite(s) ==
  /\ reqs[s].kind = "await" /\ reqs[s].route = "POST /:postId/comment"
  /\ LET r == reqs[s] IN
       /\ posts' = (IF Exists(r.postId)
                    THEN UpdateOne(r.postId,
                           [posts[r.postId] EXCEPT
                              !.comments = Push(@, CommentEntry(r.user, r.arg))])
                    ELSE posts)
       /\ Respond(s, Done(r.route, 200, PostsBody))
  /\ UNCHANGED <<nextId, now, kindVars, dialogVars>>

\* ------------------------------------------------------------------ inputs
\* Request bodies of POST / and PUT /:postId: captions at the bounds of the
\* length rule, and bodies with a field missing
Images == {"a.png", "b.png"}
BadBodies ==
  {[caption |-> Xs(MinCaption - 1), image |-> "a.png"],
   [caption |-> Xs(MaxCaption + 1), image |-> "a.png"],
   [caption |-> Xs(MinCaption)], [image |-> "a.png"]}
CreateBodies == {[caption |-> Xs(MinCaption), image |-> "a.png"]} \cup BadBodies
UpdateBodies == {[caption |-> Xs(MaxCaption), image |-> "b.png"]} \cup BadBodies

Comments == {"uwu"}
CommentBodies == {[comment |-> c] : c \in Comments} \cup {[other |-> "x"]}

\* ------------------------------------------------------------ the service
Init ==
  /\ posts = [p \in PostIds |-> NULL]
  /\ nextId = 1
  /\ now = 0
  /\ reqs = [s \in Slots |-> Idle]
  /\ storedKind \in IdKinds
  /\ callerKind \in IdKinds
  /\ postData = [caption |-> <<>>, image |-> ""]
  /\ open = FALSE

\* A request of a route that only reads arrives on connection s and is answered
ReadRequest(s) ==
  \/ GetAll(s)
  \/ \E u \in Users : GetUserPosts(s, u)
  \/ \E u \in Users : GetUserPostsById(s, u)
  \/ GetTrending(s)
  \/ \E p \in PostIds : GetPost(s, p)
  \/ UploadImage(s)

\* A create request arrives on connection s and is answered
CreateRequest(s) == \E u \in Users, b \in CreateBodies : CreatePost(s, u, b)

\* A request of a route that reads a post and then writes it arrives on
\* connection s and runs up to its suspension or, when it is refused, its response
ModifyRequest(s) ==
  \/ \E u \in Users, p \in PostIds : LikeRead(s, u, p)
  \/ \E u \in Users, p \in PostIds : DeleteRead(s, u, p)
  \/ \E u \in Users, p \in PostIds, b \in UpdateBodies : UpdateRead(s, u, p, b)
  \/ \E u \in Users, p \in PostIds, b \in CommentBodies : CommentRead(s, u, p, b)

\* The suspended request of connection s runs to its response
Resume(s) ==
  \/ LikeWrite(s)
  \/ DeleteWrite(s)
  \/ UpdateWrite(s)
  \/ CommentWrite(s)

\* No request is in flight
Quiet == \A s \in Slots : Free(s)

\* Requests arrive one at a time: each is answered before the next arrives
Next ==
  \/ Quiet /\ ReadRequest(1)
  \/ Quiet /\ CreateRequest(1)
  \/ Quiet /\ ModifyRequest(1)
  \/ Resume(1)

Spec == Init /\ [][Next]_vars

\* Requests of the writing routes overlap, on up to MaxInFlight connections,
\* over a store of at most ConcPosts posts
NextConc ==
  \E s \in Slots :
    \/ Accepts(s) /\ nextId <= ConcPosts /\ CreateRequest(s)
    \/ Accepts(s) /\ ModifyRequest(s)
    \/ Resume(s)

SpecConc == Init /\ [][NextConc]_vars

\* Two users like the same post: connection s carries the one toggle-like of
\* user s, on the first post, at any time relative to the other's; posts are
\* created on connections that have not carried a like
IsLike(r) == r.kind # "idle" /\ r.route = "PUT /like/:postId"

NextTwoLikers ==
  \E s \in Slots :
    \/ Free(s) /\ ~IsLike(reqs[s]) /\ CreateRequest(s)
    \/ s \in Users /\ ~IsLike(reqs[s]) /\ LikeRead(s, s, 1)
    \/ LikeWrite(s)

SpecTwoLikers == Init /\ [][NextTwoLikers]_vars

\* -------------------------------------------------------------- the dialog
\* The bounds of the Create button's test on the trimmed caption
CaptionAbove == 5
CaptionBelow == 100

\* What the user can have typed into the caption field: texts at the bounds of
\* either length rule, bare or with a blank at both ends
TypedCaptions ==
  {Str(b, n, b) :
     n \in {MinCaption - 1, MinCaption, MinCaption + 1,
            MaxCaption - 1, MaxCaption, MaxCaption + 1},
     b \in {0, 1}}
UploadedImages == {"https://socialuwu.herokuapp.com/images/1cat.png"}

handleClickOpen ==
  /\ open' = TRUE
  /\ UNCHANGED <<storeVars, reqs, kindVars, postData>>

handleClose ==
  /\ open' = FALSE
  /\ UNCHANGED <<storeVars, reqs, kindVars, postData>>

\* The caption field's onChange
onChange(value) ==
  /\ open
  /\ postData' = [postData EXCEPT !.caption = value]
  /\ UNCHANGED <<storeVars, reqs, kindVars, open>>

imageUpload(url) ==
  /\ open
  /\ postData' = [postData EXCEPT !.image = url]
  /\ UNCHANGED <<storeVars, reqs, kindVars, open>>

\* The test that renders the Create button enabled
CreateEnabled ==
  /\ postData.image # ""
  /\ Len(Trim(postData.caption)) > CaptionAbove
  /\ Len(Trim(postData.caption)) < CaptionBelow

\* createPost(postData, token): POST / with postData as the body, as the user
\* the token names
createPost(data, u) == Free(1) /\ CreateStore(1, u, data)

\* The enabled Create button's onClick
createPostboi(u) ==
  /\ open
  /\ CreateEnabled
  /\ open' = FALSE
  /\ createPost(postData, u)
  /\ UNCHANGED <<kindVars, postData>>

NextDialog ==
  \/ handleClickOpen
  \/ handleClose
  \/ \E c \in TypedCaptions : onChange(c)
  \/ \E i \in UploadedImages : imageUpload(i)
  \/ \E u \in Users : createPostboi(u)

SpecDialog == Init /\ [][NextDialog]_vars

\* -------------------------------------------------------------- properties
Count(x, seq) == Cardinality({i \in DOMAIN seq : seq[i] = x})
IsPrefix(a, b) == Len(a) <= Len(b) /\ SubSeq(b, 1, Len(a)) = a
Answered(s, route, status) ==
  reqs[s].kind = "done" /\ reqs[s].route = route /\ reqs[s].status = status
AnsweredNext(s, status) == reqs'[s].kind = "done" /\ reqs'[s].status = status
OwnerOf(p) == posts[p].userId.val
ValidBodies == {b \in CreateBodies \cup UpdateBodies : ValidatePost(b) = <<>>}
ValidComments == {b \in CommentBodies : ValidateComment(b) = <<>>}

\* C1: in every reachable state, under any interleaving of toggle-like
\* requests, no user occurs more than once in the likes of a post.
C1_LikesHoldEachUserOnce ==
  \A p \in PostIds : Exists(p) => \A u \in Users : Count(u, posts[p].likes) <= 1

\* C2: two distinct users, neither in the likes of the post, each issue one
\* toggle-like on it; however their reads and writes interleave, once both are
\* answered the likes of the post hold both users.
C2_BothLikesPersist ==
  \A s, t \in Slots \cap Users :
    (s # t /\ Answered(s, "PUT /like/:postId", 200)
           /\ Answered(t, "PUT /like/:postId", 200))
    => /\ Exists(1)
       /\ Count(s, posts[1].likes) = 1
       /\ Count(t, posts[1].likes) = 1

C2_Witness ==
  /\ Answered(1, "PUT /like/:postId", 200)
  /\ Answered(2, "PUT /like/:postId", 200)
  /\ posts[1].likes = <<2, 1>>

\* C3: with no other request in between, a toggle-like by a user who is not
\* in the likes of the post leaves the user in them exactly once; a second
\* toggle-like by the same user then gives back the set of likes the post had
\* before the first, whether or not the user was in it; no other post changes.
C3_ToggleTwiceRestores ==
  [][\A s \in Slots :
       LikeWrite(s) =>
         LET u == reqs[s].user
             p == reqs[s].postId
             before == posts[p].likes
             once == posts'[p].likes
             twice == LikeUpdate([user |-> u, arg |-> LikeBranch(once, u)], once)
         IN  /\ \A q \in PostIds \ {p} : posts'[q] = posts[q]
             /\ ~Includes(before, u) => Count(u, once) = 1
             /\ Includes(before, u) => Count(u, once) = 0
             /\ \A v \in Users \ {u} : Count(v, once) = Count(v, before)
             /\ Range(twice) = Range(before)]_vars

C3_Witness ==
  /\ Answered(1, "PUT /like/:postId", 200)
  /\ \E p \in PostIds : Exists(p) /\ Len(posts[p].likes) = NumUsers
  /\ \E p \in PostIds : Exists(p) /\ posts[p].likes = <<>>

\* C4: a DELETE /:postId or a validly formed PUT /:postId on an existing post by
\* a caller who is not its owner is answered 403 and changes nothing in the store.
C4_NonOwnerRefused ==
  [][\A s \in Slots :
       reqs'[s] # reqs[s] =>
         \A u \in Users, p \in PostIds :
           (Exists(p) /\ OwnerOf(p) # u
              /\ (DeleteRead(s, u, p) \/ \E b \in ValidBodies : UpdateRead(s, u, p, b)))
           => AnsweredNext(s, 403) /\ UNCHANGED storeVars]_vars

C4_Witness ==
  /\ Answered(1, "DELETE /:postId", 403)
  /\ storedKind = "string" /\ callerKind = "string"
  /\ \E p \in PostIds : Exists(p)

\* C5: a DELETE /:postId by the owner of an existing post is answered 200 and
\* removes the post, a valid PUT /:postId by the owner is answered 200 and
\* replaces caption and image; the owner is never answered 403.
C5_OwnerServed ==
  [][\A s \in Slots, u \in Users, p \in PostIds :
       /\ (Exists(p) /\ OwnerOf(p) = u
             /\ (DeleteRead(s, u, p) \/ \E b \in ValidBodies : UpdateRead(s, u, p, b)))
          => reqs'[s].kind = "await"
       /\ DeleteWrite(s) => AnsweredNext(s, 200) /\ posts'[reqs[s].postId] = NULL
       /\ (UpdateWrite(s) /\ Exists(reqs[s].postId))
          => /\ AnsweredNext(s, 200)
             /\ posts'[reqs[s].postId].caption = reqs[s].arg.caption
             /\ posts'[reqs[s].postId].image = reqs[s].arg.image]_vars

\* C6: in every reachable store state the arrays of GET / and of
\* GET /userposts/:userId are ordered by createdAt descending.
NewestFirst(ids) ==
  \A i, j \in DOMAIN ids :
    i < j => posts[ids[i]].createdAt >= posts[ids[j]].createdAt

C6_FeedsNewestFirst ==
  /\ NewestFirst(FindSortedByCreatedAt)
  /\ \A u \in Users : NewestFirst(FindByUser(u))

\* C7: in every reachable store state GET /trending returns at most 5 posts, in
\* descending order of their number of likes, and no post it leaves out has
\* more likes than a post it returns.
C7_TrendingByLikeCount ==
  /\ Len(Trending) <= TrendingLimit
  /\ \A i, j \in DOMAIN Trending :
       i < j => Len(posts[Trending[i]].likes) >= Len(posts[Trending[j]].likes)
  /\ \A p \in PostIds :
       (Exists(p) /\ p \notin Range(Trending))
       => \A i \in DOMAIN Trending :
            Len(posts[p].likes) <= Len(posts[Trending[i]].likes)

\* C8: the write of a comment request on an existing post appends exactly one
\* entry, the caller's profile without the password and the given text, after
\* the entries the post had; and whatever step is taken, the comments of a
\* post that stays in the store only grow at the end.
C8_CommentsAppendOnly ==
  [][/\ \A p \in PostIds :
          (Exists(p) /\ posts'[p] # NULL)
          => IsPrefix(posts[p].comments, posts'[p].comments)
     /\ \A s \in Slots :
          (CommentWrite(s) /\ Exists(reqs[s].postId))
          => LET p == reqs[s].postId
                 new == posts'[p].comments
                 last == new[Len(new)]
             IN  /\ Len(new) = Len(posts[p].comments) + 1
                 /\ last.comment = reqs[s].arg
                 /\ "password" \notin DOMAIN last.userboi
                 /\ last.userboi._id = reqs[s].user
                 /\ \A f \in DOMAIN last.userboi :
                      last.userboi[f] = UserDoc(reqs[s].user)[f]
                 /\ AnsweredNext(s, 200)]_vars

C8_Witness ==
  /\ \E s \in Slots : Answered(s, "POST /:postId/comment", 200)
  /\ \E p \in PostIds :
       /\ Exists(p)
       /\ Len(posts[p].comments) >= 2
       /\ posts[p].comments[1].userboi._id # posts[p].comments[2].userboi._id

\* C9: when the post id names no post, a toggle-like, a delete, a valid update
\* and a valid comment request are answered 500 with an {error} body and change
\* nothing in the store; GET /:postId is answered 200 with null.
C9_MissingPostIs500 ==
  [][\A s \in Slots, u \in Users, p \in PostIds :
       ~Exists(p) =>
         /\ (\/ LikeRead(s, u, p)
             \/ DeleteRead(s, u, p)
             \/ \E b \in ValidBodies : UpdateRead(s, u, p, b)
             \/ \E b \in ValidComments : CommentRead(s, u, p, b))
            => /\ AnsweredNext(s, 500)
               /\ DOMAIN reqs'[s].body = {"error"}
               /\ UNCHANGED storeVars
         /\ GetPost(s, p)
            => AnsweredNext(s, 200) /\ reqs'[s].body = [null |-> TRUE]]_vars

C9_Witness ==
  /\ Answered(1, "DELETE /:postId", 500)
  /\ "error" \in DOMAIN reqs[1].body
  /\ \E p \in PostIds : Exists(p)
  /\ \E p \in PostIds : ~Exists(p)

\* C10: the dialog lets the user submit exactly when an image is set and the
\* caption is one the create route accepts, of 5 to 100 characters; a caption
\* the route refuses is answered 400 and creates no post.
C10_DialogAcceptsWhatRouteAccepts ==
  /\ open => (CreateEnabled <=> (postData.image # "" /\ ValidatePost(postData) = <<>>))
  /\ \A n \in {MinCaption, MaxCaption} :
       ValidatePost([caption |-> Xs(n), image |-> "a.png"]) = <<>>
  /\ \A n \in {MinCaption - 1, MaxCaption + 1} :
       ValidatePost([caption |-> Xs(n), image |-> "a.png"]) # <<>>

====
